---- MODULE Spec2Model ----
(***************************************************************************)
(* sportsclaw-relay (docker/relay/relay_server.py): one HTTP query request *)
(* handled by query_stream (POST /api/query) or query_sync                 *)
(* (POST /api/query/sync), together with the child process it spawns, the  *)
(* HTTP client and the clock of asyncio.wait_for.                          *)
(*                                                                         *)
(* A JSON object / Python dict is a function from string keys to values.   *)
(* A line of child output is its text without the line terminator.         *)
(***************************************************************************)
EXTENDS Integers, Sequences, FiniteSets, TLC

VARIABLES
    mode,          \* "stream" (query_stream) or "sync" (query_sync)
    body,          \* the parsed request body (a dict)
    pc,            \* position of the handler coroutine
    fault,         \* exception that left the handler, "none" if none
    response,      \* what the handler returned: [status, body]
    child,         \* "none", "running", "exited", "killed"
    returncode,    \* proc.returncode once the child exited
    stdoutBuf,     \* lines in the stdout pipe the relay has not read yet
    stdoutClosed,  \* the child closed its standard output
    produced,      \* every line the child wrote to standard output
    stderrText,    \* what the child wrote to standard error
    stderrClosed,  \* the child closed its standard error
    transport,     \* the HTTP connection: "open" or "closed"
    sent,          \* what response.write put on the connection, in order
    eofCalls,      \* calls of response.write_eof
    elapsed,       \* `timeout` seconds have passed since wait_for began
    timedOut,      \* asyncio.TimeoutError was raised in the handler
    aborted,       \* the disconnect / cancellation clause ran (line 186)
    lateWrites,    \* write operations attempted after that clause ran
    spawnCount,    \* calls of create_subprocess_exec that made a process
    killCount,     \* calls of proc.kill()
    environ,       \* os.environ, the environment of the relay process
    launches       \* per concurrent request: its body, how far its launch
                   \* got, and the cmd and env built for its child

vars == << mode, body, pc, fault, response, child, returncode, stdoutBuf,
           stdoutClosed, produced, stderrText, stderrClosed, transport, sent,
           eofCalls, elapsed, timedOut, aborted, lateWrites, spawnCount,
           killCount, environ, launches >>

\* What no step of the relaying of one request changes.
handlerVars == << mode, body, environ, launches >>
childVars == << child, returncode, stdoutBuf, stdoutClosed, produced,
                stderrText, stderrClosed >>

-----------------------------------------------------------------------------
(* Bounds and program constants *)

\* Most lines one child writes to standard output.
MaxLines == 2

\* DEFAULT_TIMEOUT = int(os.environ.get("RELAY_TIMEOUT", 180))
DEFAULT_TIMEOUT == 180

-----------------------------------------------------------------------------
(* Python dicts *)

EmptyDict == [k \in {} |-> ""]

\* d.get(k, default)
Get(d, k, default) == IF k \in DOMAIN d THEN d[k] ELSE default

\* d[k] = v
SetItem(d, k, v) == [x \in DOMAIN d \cup {k} |-> IF x = k THEN v ELSE d[x]]

-----------------------------------------------------------------------------
(* Requests *)

BodyNoPrompt    == "user_id" :> "discord-1"
BodyEmptyPrompt == "prompt" :> ""
BodyDefaults    == "prompt" :> "Who won the Super Bowl?"
BodyFull        == ("prompt" :> "Who won the Super Bowl?")
                   @@ ("user_id" :> "discord-1") @@ ("timeout" :> 1)

Bodies == {BodyNoPrompt, BodyEmptyPrompt, BodyDefaults, BodyFull}

\* Mutant of PromptRejected: only a missing key is rejected, "" is let through.
PromptRejected_OnlyMissing(b) == "prompt" \notin DOMAIN b

\* `not prompt` for prompt = body.get("prompt"): None and "" are falsy.
PromptRejected(b) == "prompt" \notin DOMAIN b \/ b["prompt"] = ""

\* user_id = body.get("user_id", "api-anonymous")
UserId(b) == Get(b, "user_id", "api-anonymous")

\* timeout = body.get("timeout", DEFAULT_TIMEOUT)
Timeout(b) == Get(b, "timeout", DEFAULT_TIMEOUT)

\* web.json_response({"status": False, "error": "prompt is required"}, status=400)
BadRequest ==
    [status |-> 400,
     body   |-> ("status" :> FALSE) @@ ("error" :> "prompt is required")]

NoResponse == [status |-> 0, body |-> EmptyDict]

\* The prepared web.StreamResponse(status=200) that query_stream returns.
StreamResponse == [status |-> 200, body |-> EmptyDict]

-----------------------------------------------------------------------------
(* Lines of child output and json.loads *)

LineEmpty    == ""
LineText     == "Collecting sports-skills"
LineNumber   == "5"
LineProgress == "{\"type\": \"progress\", \"user_id\": \"engine\"}"
LineResult   == "{\"type\": \"result\", \"text\": \"Chiefs\"}"
LineResult2  == "{\"type\": \"result\", \"text\": \"Eagles\"}"
LineError    == "{\"type\": \"error\", \"error\": \"rate limited\"}"
LineErrorNoText == "{\"type\": \"error\", \"error\": \"\"}"
LineNoType   == "{\"text\": \"untyped\"}"

Lines == {LineEmpty, LineText, LineNumber, LineProgress, LineResult,
          LineResult2, LineError, LineErrorNoText, LineNoType}

\* The lines json.loads accepts, with the value it returns: an object (dict)
\* or another JSON value.  Every other line raises json.JSONDecodeError.
JsonObjects ==
    (LineProgress :> (("type" :> "progress") @@ ("user_id" :> "engine")))
    @@ (LineResult :> (("type" :> "result") @@ ("text" :> "Chiefs")))
    @@ (LineResult2 :> (("type" :> "result") @@ ("text" :> "Eagles")))
    @@ (LineError :> (("type" :> "error") @@ ("error" :> "rate limited")))
    @@ (LineErrorNoText :> (("type" :> "error") @@ ("error" :> "")))
    @@ (LineNoType :> ("text" :> "untyped"))

JsonScalars == {LineNumber}

JsonDecodes(line) == line \in DOMAIN JsonObjects \cup JsonScalars
JsonIsDict(line)  == line \in DOMAIN JsonObjects
JsonLoads(line)   == JsonObjects[line]

-----------------------------------------------------------------------------
(* Events the streaming relay writes *)

\* {"type": "debug", "text": decoded}
DebugEvent(decoded) == ("type" :> "debug") @@ ("text" :> decoded)

\* Mutant of PassedEvent: the parsed event is forwarded without the user id.
PassedEvent_NoInject(decoded, user_id) == JsonLoads(decoded)

\* event = json.loads(decoded); event["user_id"] = user_id
PassedEvent(decoded, user_id) == SetItem(JsonLoads(decoded), "user_id", user_id)

\* Mutant of TimeoutEvent: the timeout is reported as a debug line.
TimeoutEvent_AsDebug(timeout) ==
    ("type" :> "debug")
    @@ ("text" :> "Query timed out after " \o ToString(timeout) \o "s")

\* {"type": "error", "error": f"Query timed out after {timeout}s"}
TimeoutMessage(timeout) == "Query timed out after " \o ToString(timeout) \o "s"
TimeoutEvent(timeout) ==
    ("type" :> "error") @@ ("error" :> TimeoutMessage(timeout))

\* stderr_text or f"Exit code {proc.returncode}"
ExitMessage(stderr_text, rc) ==
    IF stderr_text # "" THEN stderr_text ELSE "Exit code " \o ToString(rc)

\* {"type": "error", "error": ..., "returncode": proc.returncode}
ExitEvent(stderr_text, rc) ==
    ("type" :> "error") @@ ("error" :> ExitMessage(stderr_text, rc))
    @@ ("returncode" :> rc)

\* An entry of `sent`: the event and which code wrote it ("stdout": the
\* stream_stdout loop, "timeout": line 182, "exit": line 174).
Written(origin, ev) == [origin |-> origin, ev |-> ev]

\* Mutant of StreamWrite: the newest event is put in front of the earlier ones.
StreamWrite_Prepend(log, entry) == << entry >> \o log

\* await response.write(...) on an open connection
StreamWrite(log, entry) == Append(log, entry)

\* proc.kill(): ends a running child, no effect on one that already exited
Kill(c) == IF c = "running" THEN "killed" ELSE c


-----------------------------------------------------------------------------
(* query_sync: reduction of the buffered output *)

\* str.strip() on the texts the model uses.
Strip(s) ==
    CASE s = "model unreachable\n" -> "model unreachable"
      [] s = "\n" -> ""
      [] OTHER -> s

\* stdout.decode().strip(): the lines joined by "\n" with the blank lines at
\* both ends removed.
RECURSIVE DropBlankHead(_)
DropBlankHead(lines) ==
    IF lines # << >> /\ Strip(Head(lines)) = ""
    THEN DropBlankHead(Tail(lines)) ELSE lines

RECURSIVE DropBlankTail(_)
DropBlankTail(lines) ==
    IF lines # << >> /\ Strip(lines[Len(lines)]) = ""
    THEN DropBlankTail(SubSeq(lines, 1, Len(lines) - 1)) ELSE lines

RECURSIVE JoinLines(_)
JoinLines(lines) ==
    IF lines = << >> THEN ""
    ELSE IF Len(lines) = 1 THEN lines[1]
    ELSE lines[1] \o "\n" \o JoinLines(Tail(lines))

\* stdout_text.splitlines() and stdout_text itself
StdoutLines(lines) == DropBlankTail(DropBlankHead(lines))
StdoutText(lines) == JoinLines(StdoutLines(lines))

\* event.get("type") == t
HasType(event, t) == "type" \in DOMAIN event /\ event["type"] = t

\* None is << >>, a text t is << t >>.
None == << >>
Truthy(opt) == opt # None /\ opt[1] # ""

ScanStart == [result_text |-> None, error_text |-> None, raised |-> FALSE]

\* The loop over stdout_text.splitlines() (lines 237-248).  Only
\* json.JSONDecodeError is caught: event.get on a value that is no dict
\* raises AttributeError, which ends the loop.
RECURSIVE SyncScan(_, _)
SyncScan(lines, acc) ==
    IF lines = << >> THEN acc
    ELSE LET line == Strip(Head(lines)) IN
         IF line = "" THEN SyncScan(Tail(lines), acc)
         ELSE IF ~JsonDecodes(line) THEN SyncScan(Tail(lines), acc)
         ELSE IF ~JsonIsDict(line) THEN [acc EXCEPT !.raised = TRUE]
         ELSE LET event == JsonLoads(line) IN
              IF HasType(event, "result")
              THEN SyncScan(Tail(lines),
                       [acc EXCEPT !.result_text = << Get(event, "text", "") >>])
              ELSE IF HasType(event, "error")
              THEN SyncScan(Tail(lines),
                       [acc EXCEPT !.error_text =
                                     << Get(event, "error", "Unknown error") >>])
              ELSE SyncScan(Tail(lines), acc)

\* Lines 250-281: the response built from the scan.
SyncResponse(scan, stdout_text, stderr_text, rc, user_id, elapsed_ms) ==
    IF Truthy(scan.error_text)
    THEN [status |-> 500,
          body |-> ("status" :> FALSE) @@ ("error" :> scan.error_text[1])
                   @@ ("user_id" :> user_id) @@ ("elapsed_ms" :> elapsed_ms)]
    ELSE IF scan.result_text # None
    THEN [status |-> 200,
          body |-> ("status" :> TRUE) @@ ("text" :> scan.result_text[1])
                   @@ ("user_id" :> user_id) @@ ("elapsed_ms" :> elapsed_ms)]
    ELSE IF rc = 0
    THEN [status |-> 200,
          body |-> ("status" :> TRUE) @@ ("text" :> stdout_text)
                   @@ ("user_id" :> user_id) @@ ("elapsed_ms" :> elapsed_ms)]
    ELSE [status |-> 500,
          body |-> ("status" :> FALSE)
                   @@ ("error" :> ExitMessage(stderr_text, rc))
                   @@ ("stdout" :> stdout_text) @@ ("returncode" :> rc)
                   @@ ("elapsed_ms" :> elapsed_ms)]

\* Lines 283-287: the response to asyncio.TimeoutError.
SyncTimeoutResponse(timeout) ==
    [status |-> 504,
     body |-> ("status" :> FALSE) @@ ("error" :> TimeoutMessage(timeout))]

\* int((time.monotonic() - started_at) * 1000): whatever the clock gives.
ElapsedMs == {0, 1500}

-----------------------------------------------------------------------------
(* The launcher: _build_cmd and _build_env for concurrent requests *)

\* SPORTSCLAW_BIN and SPORTSCLAW_ENTRY (lines 41-42), at their defaults.
SPORTSCLAW_BIN == "node"
SPORTSCLAW_ENTRY == "/app/dist/index.js"

\* Truthiness of body.get(k): of a text field (None and "" are falsy) and
\* of a boolean field (None and False are falsy).
TruthyText(b, k) == k \in DOMAIN b /\ b[k] # ""
TruthyFlag(b, k) == k \in DOMAIN b /\ b[k] = TRUE

\* _build_cmd (lines 299-307): the prompt is put in the list first and
\* "--verbose" is appended after it.
BuildCmd(b) ==
    << SPORTSCLAW_BIN, SPORTSCLAW_ENTRY, "--pipe", b["prompt"] >>
    \o (IF TruthyFlag(b, "verbose") THEN << "--verbose" >> ELSE << >>)

\* key_map.get(provider, "ANTHROPIC_API_KEY") (lines 327-332)
KeyMap ==
    ("anthropic" :> "ANTHROPIC_API_KEY") @@ ("openai" :> "OPENAI_API_KEY")
    @@ ("google" :> "GOOGLE_GENERATIVE_AI_API_KEY")

CredentialVar(provider) == Get(KeyMap, provider, "ANTHROPIC_API_KEY")

\* _build_env (lines 317-335) on a copy env of os.environ.
BuildEnv(env, b) ==
    LET e1 == IF TruthyText(b, "provider")
              THEN SetItem(env, "SPORTSCLAW_PROVIDER", b["provider"]) ELSE env
        e2 == IF TruthyText(b, "model")
              THEN SetItem(e1, "SPORTSCLAW_MODEL", b["model"]) ELSE e1
        provider == Get(b, "provider", Get(e2, "SPORTSCLAW_PROVIDER", "anthropic"))
    IN IF TruthyText(b, "api_key")
       THEN SetItem(e2, CredentialVar(provider), b["api_key"]) ELSE e2

\* Mutant of EnvironAfterBuild: env = os.environ without the copy, so the
\* overrides are written into the process environment.
EnvironAfterBuild_Aliased(env, b) == BuildEnv(env, b)

\* os.environ after _build_env ran: env = dict(os.environ) (line 317) is a
\* copy, the assignments go to the copy.
EnvironAfterBuild(env, b) == env

\* The process environment the relay was started with.
AmbientPlain == "PATH" :> "/usr/bin"
AmbientConfigured ==
    ("PATH" :> "/usr/bin") @@ ("SPORTSCLAW_PROVIDER" :> "google")
    @@ ("ANTHROPIC_API_KEY" :> "sk-ambient")
Ambients == {AmbientPlain, AmbientConfigured}

\* Request bodies with the fields the launcher reads; S is {} for a field
\* that is absent and {v} for one that is v.
Field(k, S) == [x \in {y \in {k} : S # {}} |-> CHOOSE v \in S : TRUE]

LaunchPrompt == "prompt" :> "Who won the Super Bowl?"

LaunchBodies ==
    { LaunchPrompt @@ Field("verbose", v) @@ Field("provider", p)
        @@ Field("model", m) @@ Field("api_key", k) :
      v \in {{}, {TRUE}, {FALSE}},
      p \in {{}, {"openai"}, {"mistral"}},
      m \in {{}, {"gpt-4o"}},
      k \in {{}, {"sk-a"}, {"sk-b"}} }

\* The requests handled concurrently.
Requests == {"r1", "r2"}

NewLaunch(b) == [body |-> b, stage |-> "new", cmd |-> << >>, env |-> EmptyDict]

\* Lines 128-129 (213-214): cmd = _build_cmd(body); env = _build_env(body).
\* Neither function awaits, so the two calls of one request run without
\* another request's code in between.
BuildLaunch(r) ==
    /\ launches[r].stage = "new"
    /\ launches' = [launches EXCEPT
                      ![r].stage = "built",
                      ![r].cmd = BuildCmd(launches[r].body),
                      ![r].env = BuildEnv(environ, launches[r].body)]
    /\ environ' = EnvironAfterBuild(environ, launches[r].body)
    /\ UNCHANGED << mode, body, pc, fault, response, childVars, transport,
                    sent, eofCalls, elapsed, timedOut, aborted, lateWrites,
                    spawnCount, killCount >>

\* Lines 144-149 (220-225): the child is started with cmd and env.
SpawnLaunch(r) ==
    /\ launches[r].stage = "built"
    /\ launches' = [launches EXCEPT ![r].stage = "spawned"]
    /\ UNCHANGED << mode, body, pc, fault, response, childVars, transport,
                    sent, eofCalls, elapsed, timedOut, aborted, lateWrites,
                    spawnCount, killCount, environ >>

-----------------------------------------------------------------------------
(* The child process and the client *)

ExitCodes == {0, 1}
StderrOutputs == {"", "model unreachable\n"}

\* The relaying of one request, before its handler has run.
RelayIdle ==
    /\ pc = "start"
    /\ fault = "none"
    /\ response = NoResponse
    /\ child = "none"
    /\ returncode = 0
    /\ stdoutBuf = << >>
    /\ stdoutClosed = FALSE
    /\ produced = << >>
    /\ stderrText = ""
    /\ stderrClosed = FALSE
    /\ transport = "open"
    /\ sent = << >>
    /\ eofCalls = 0
    /\ elapsed = FALSE
    /\ timedOut = FALSE
    /\ aborted = FALSE
    /\ lateWrites = 0
    /\ spawnCount = 0
    /\ killCount = 0

Init ==
    /\ mode \in {"stream", "sync"}
    /\ body \in Bodies
    /\ RelayIdle
    /\ environ = AmbientPlain
    /\ launches = [r \in Requests |-> NewLaunch(LaunchPrompt)]

Finished == pc \in {"done", "raised"}

\* The child writes one line to standard output.
ChildWrite(line) ==
    /\ child = "running" /\ ~stdoutClosed /\ ~Finished
    /\ Len(produced) < MaxLines
    /\ produced' = Append(produced, line)
    /\ stdoutBuf' = Append(stdoutBuf, line)
    /\ UNCHANGED << handlerVars, pc, fault, response, child, returncode,
                    stdoutClosed, stderrText, stderrClosed, transport, sent,
                    eofCalls, elapsed, timedOut, aborted, lateWrites,
                    spawnCount, killCount >>

\* The child closes standard output and keeps running.
ChildCloseStdout ==
    /\ child = "running" /\ ~stdoutClosed /\ ~Finished
    /\ stdoutClosed' = TRUE
    /\ UNCHANGED << handlerVars, pc, fault, response, child, returncode,
                    stdoutBuf, produced, stderrText, stderrClosed, transport,
                    sent, eofCalls, elapsed, timedOut, aborted, lateWrites,
                    spawnCount, killCount >>

\* The child writes err to standard error and closes it.
ChildCloseStderr(err) ==
    /\ child \in {"running", "exited"} /\ ~stderrClosed /\ ~Finished
    /\ stderrClosed' = TRUE
    /\ stderrText' = err
    /\ UNCHANGED << handlerVars, pc, fault, response, child, returncode,
                    stdoutBuf, stdoutClosed, produced, transport, sent,
                    eofCalls, elapsed, timedOut, aborted, lateWrites,
                    spawnCount, killCount >>

\* The child exits with status rc; its standard output is closed with it.
ChildExit(rc) ==
    /\ child = "running" /\ ~Finished
    /\ child' = "exited"
    /\ returncode' = rc
    /\ stdoutClosed' = TRUE
    /\ UNCHANGED << handlerVars, pc, fault, response, stdoutBuf, produced,
                    stderrText, stderrClosed, transport, sent, eofCalls,
                    elapsed, timedOut, aborted, lateWrites, spawnCount,
                    killCount >>

\* The HTTP client goes away while the stream is being relayed.
ClientDisconnect ==
    /\ mode = "stream" /\ transport = "open"
    /\ pc \in {"spawn", "drain", "wait", "stderr"}
    /\ transport' = "closed"
    /\ UNCHANGED << handlerVars, pc, fault, response, childVars, sent,
                    eofCalls, elapsed, timedOut, aborted, lateWrites,
                    spawnCount, killCount >>

\* The request's timeout runs out, counted from the start of wait_for.
Tick ==
    /\ ~elapsed
    /\ pc \in {"drain", "wait", "stderr", "communicate"}
    /\ elapsed' = TRUE
    /\ UNCHANGED << handlerVars, pc, fault, response, childVars, transport,
                    sent, eofCalls, timedOut, aborted, lateWrites, spawnCount,
                    killCount >>

-----------------------------------------------------------------------------
(* Both handlers: validation and spawn *)

\* Lines 118-141 and 203-217: the prompt check, then (streaming) the
\* response is prepared.
Validate ==
    /\ pc = "start"
    /\ IF PromptRejected(body)
       THEN pc' = "done" /\ response' = BadRequest
       ELSE pc' = "spawn" /\ response' = response
    /\ UNCHANGED << handlerVars, fault, childVars, transport, sent, eofCalls,
                    elapsed, timedOut, aborted, lateWrites, spawnCount,
                    killCount >>

\* asyncio.create_subprocess_exec returns a process.
SpawnOk ==
    /\ pc = "spawn"
    /\ child' = "running"
    /\ spawnCount' = spawnCount + 1
    /\ pc' = IF mode = "stream" THEN "drain" ELSE "communicate"
    /\ UNCHANGED << handlerVars, fault, response, returncode, stdoutBuf,
                    stdoutClosed, produced, stderrText, stderrClosed,
                    transport, sent, eofCalls, elapsed, timedOut, aborted,
                    lateWrites, killCount >>

\* asyncio.create_subprocess_exec raises FileNotFoundError (an OSError): no
\* except clause of either handler names it.
SpawnFail ==
    /\ pc = "spawn"
    /\ pc' = "raised"
    /\ fault' = "FileNotFoundError"
    /\ UNCHANGED << handlerVars, response, childVars, transport, sent,
                    eofCalls, elapsed, timedOut, aborted, lateWrites,
                    spawnCount, killCount >>

\* The handler task is cancelled while the spawn is awaited.  query_stream
\* catches CancelledError and runs proc.kill() with proc not yet bound
\* (UnboundLocalError); query_sync lets CancelledError through.
SpawnCancelled ==
    /\ pc = "spawn"
    /\ pc' = "raised"
    /\ fault' = IF mode = "stream" THEN "UnboundLocalError"
                ELSE "CancelledError"
    /\ UNCHANGED << handlerVars, response, childVars, transport, sent,
                    eofCalls, elapsed, timedOut, aborted, lateWrites,
                    spawnCount, killCount >>

-----------------------------------------------------------------------------
(* query_stream *)

\* Lines 157-165: the event written for a non-empty line json.loads accepts
\* as a dict, or rejects.
StreamEvent(decoded, user_id) ==
    IF JsonDecodes(decoded) THEN PassedEvent(decoded, user_id)
    ELSE DebugEvent(decoded)

\* Lines 186-187: except (ConnectionResetError, asyncio.CancelledError).
StreamAbort ==
    /\ child' = Kill(child)
    /\ killCount' = killCount + 1
    /\ aborted' = TRUE
    /\ pc' = "eof"

\* One turn of the loop of stream_stdout (lines 152-165).  An empty line is
\* skipped.  event["user_id"] = ... on a JSON value that is no dict raises
\* TypeError, which nothing catches.  A write on a closed connection raises
\* ConnectionResetError.
StreamLine ==
    /\ mode = "stream" /\ pc = "drain" /\ stdoutBuf # << >>
    /\ stdoutBuf' = Tail(stdoutBuf)
    /\ LET decoded == Head(stdoutBuf) IN
       IF decoded = ""
       THEN UNCHANGED << pc, fault, sent, child, killCount, aborted >>
       ELSE IF JsonDecodes(decoded) /\ ~JsonIsDict(decoded)
       THEN /\ pc' = "raised"
            /\ fault' = "TypeError"
            /\ UNCHANGED << sent, child, killCount, aborted >>
       ELSE IF transport = "open"
       THEN /\ sent' = StreamWrite(sent,
                          Written("stdout", StreamEvent(decoded, UserId(body))))
            /\ UNCHANGED << pc, fault, child, killCount, aborted >>
       ELSE /\ StreamAbort
            /\ UNCHANGED << fault, sent >>
    /\ UNCHANGED << handlerVars, response, returncode, stdoutClosed, produced,
                    stderrText, stderrClosed, transport, eofCalls, elapsed,
                    timedOut, lateWrites, spawnCount >>

\* stream_stdout reads end-of-file: wait_for returns (line 167).
StreamEof ==
    /\ mode = "stream" /\ pc = "drain"
    /\ stdoutBuf = << >> /\ stdoutClosed
    /\ pc' = "wait"
    /\ UNCHANGED << handlerVars, fault, response, childVars, transport, sent,
                    eofCalls, elapsed, timedOut, aborted, lateWrites,
                    spawnCount, killCount >>

\* Lines 180-185: wait_for raises asyncio.TimeoutError.  The write of the
\* timeout event is inside the except clause: on a closed connection its
\* ConnectionResetError leaves the handler.
StreamTimeout ==
    /\ mode = "stream" /\ pc = "drain" /\ elapsed
    /\ timedOut' = TRUE
    /\ child' = Kill(child)
    /\ killCount' = killCount + 1
    /\ IF transport = "open"
       THEN /\ sent' = StreamWrite(sent,
                          Written("timeout", TimeoutEvent(Timeout(body))))
            /\ pc' = "eof"
            /\ fault' = fault
       ELSE /\ pc' = "raised"
            /\ fault' = "ConnectionResetError"
            /\ sent' = sent
    /\ UNCHANGED << handlerVars, response, returncode, stdoutBuf, stdoutClosed,
                    produced, stderrText, stderrClosed, transport, eofCalls,
                    elapsed, aborted, lateWrites, spawnCount >>

\* The handler task is cancelled at an await inside the try block.
StreamCancelled ==
    /\ mode = "stream" /\ pc \in {"drain", "wait", "stderr"}
    /\ StreamAbort
    /\ UNCHANGED << handlerVars, fault, response, returncode, stdoutBuf,
                    stdoutClosed, produced, stderrText, stderrClosed,
                    transport, sent, eofCalls, elapsed, timedOut, lateWrites,
                    spawnCount >>

\* Line 168: await proc.wait() returns once the child has exited; line 171
\* tests the return code.  No timeout covers this await.
StreamWait ==
    /\ mode = "stream" /\ pc = "wait"
    /\ child = "exited"
    /\ pc' = IF returncode # 0 THEN "stderr" ELSE "eof"
    /\ UNCHANGED << handlerVars, fault, response, childVars, transport, sent,
                    eofCalls, elapsed, timedOut, aborted, lateWrites,
                    spawnCount, killCount >>

\* Lines 172-178: await proc.stderr.read() returns at end-of-file of
\* standard error, and the exit error event is written, whatever the child
\* put on standard output.
StreamExitError ==
    /\ mode = "stream" /\ pc = "stderr"
    /\ stderrClosed
    /\ IF transport = "open"
       THEN /\ sent' = StreamWrite(sent,
                          Written("exit", ExitEvent(Strip(stderrText), returncode)))
            /\ pc' = "eof"
            /\ UNCHANGED << child, killCount, aborted >>
       ELSE /\ StreamAbort
            /\ sent' = sent
    /\ UNCHANGED << handlerVars, fault, response, returncode, stdoutBuf,
                    stdoutClosed, produced, stderrText, stderrClosed,
                    transport, eofCalls, elapsed, timedOut, lateWrites,
                    spawnCount >>

\* Lines 189-190: await response.write_eof(), reached from every clause of
\* the try statement.  On a closed connection the call either returns or
\* raises ConnectionResetError.
StreamWriteEof ==
    /\ mode = "stream" /\ pc = "eof"
    /\ eofCalls' = eofCalls + 1
    /\ lateWrites' = IF aborted THEN lateWrites + 1 ELSE lateWrites
    /\ \E raises \in IF transport = "open" THEN {FALSE} ELSE BOOLEAN :
          IF raises
          THEN pc' = "raised" /\ fault' = "ConnectionResetError"
               /\ response' = response
          ELSE pc' = "done" /\ fault' = fault /\ response' = StreamResponse
    /\ UNCHANGED << handlerVars, childVars, transport, sent, elapsed,
                    timedOut, aborted, spawnCount, killCount >>

-----------------------------------------------------------------------------
(* query_sync *)

\* Lines 226-281: proc.communicate() returns once both pipes are at
\* end-of-file and the child has exited; the output is scanned and the
\* response built.
SyncCommunicate ==
    /\ mode = "sync" /\ pc = "communicate"
    /\ child = "exited" /\ stdoutClosed /\ stderrClosed
    /\ stdoutBuf' = << >>
    /\ LET scan == SyncScan(StdoutLines(produced), ScanStart) IN
       IF scan.raised
       THEN pc' = "raised" /\ fault' = "AttributeError" /\ response' = response
       ELSE /\ pc' = "done" /\ fault' = fault
            /\ \E ms \in ElapsedMs :
                  response' = SyncResponse(scan, StdoutText(produced),
                                  Strip(stderrText), returncode, UserId(body), ms)
    /\ UNCHANGED << handlerVars, child, returncode, stdoutClosed, produced,
                    stderrText, stderrClosed, transport, sent, eofCalls,
                    elapsed, timedOut, aborted, lateWrites, spawnCount,
                    killCount >>

\* Lines 283-287: wait_for raises asyncio.TimeoutError; the clause returns
\* the 504 response and does nothing to the child.
SyncTimeout ==
    /\ mode = "sync" /\ pc = "communicate" /\ elapsed
    /\ timedOut' = TRUE
    /\ response' = SyncTimeoutResponse(Timeout(body))
    /\ pc' = "done"
    /\ UNCHANGED << handlerVars, fault, childVars, transport, sent, eofCalls,
                    elapsed, aborted, lateWrites, spawnCount, killCount >>

\* The handler task is cancelled while communicate() is awaited: query_sync
\* has no clause for CancelledError.
SyncCancelled ==
    /\ mode = "sync" /\ pc = "communicate"
    /\ pc' = "raised"
    /\ fault' = "CancelledError"
    /\ UNCHANGED << handlerVars, response, childVars, transport, sent,
                    eofCalls, elapsed, timedOut, aborted, lateWrites,
                    spawnCount, killCount >>

-----------------------------------------------------------------------------
(* Specifications *)

HandlerStep ==
    \/ Validate
    \/ SpawnOk
    \/ SpawnFail
    \/ StreamLine
    \/ StreamEof
    \/ StreamTimeout
    \/ StreamWait
    \/ StreamExitError
    \/ StreamWriteEof
    \/ SyncCommunicate
    \/ SyncTimeout

Environment ==
    \/ \E line \in Lines : ChildWrite(line)
    \/ ChildCloseStdout
    \/ \E err \in StderrOutputs : ChildCloseStderr(err)
    \/ \E rc \in ExitCodes : ChildExit(rc)
    \/ ClientDisconnect
    \/ Tick
    \/ SpawnCancelled
    \/ StreamCancelled
    \/ SyncCancelled

Next == HandlerStep \/ Environment

Spec == Init /\ [][Next]_vars

FairSpec == Spec /\ WF_vars(HandlerStep) /\ WF_vars(Tick)

\* Two concurrent requests being launched, from any of the request bodies.
LaunchInit ==
    /\ mode = "stream"
    /\ body = BodyDefaults
    /\ RelayIdle
    /\ environ \in Ambients
    /\ launches \in [Requests -> {NewLaunch(b) : b \in LaunchBodies}]

LaunchNext ==
    \/ \E r \in Requests : BuildLaunch(r)
    \/ \E r \in Requests : SpawnLaunch(r)

LaunchSpec == LaunchInit /\ [][LaunchNext]_vars

-----------------------------------------------------------------------------
(* Properties *)

\* The request carries a non-empty prompt.
ValidRequest == "prompt" \in DOMAIN body /\ body["prompt"] # ""

\* The entries of a log written by the given part of query_stream.
EntriesFrom(log, origin) == SelectSeq(log, LAMBDA e : e.origin = origin)

IsTyped(ev, t) == "type" \in DOMAIN ev /\ ev["type"] = t

\* The timeout error event of the request.
IsTimeoutItem(ev) ==
    ev = ("type" :> "error")
         @@ ("error" :> "Query timed out after " \o ToString(Timeout(body)) \o "s")

\* The positions of a log written by the timeout clause.
TimeoutItems(log) == {i \in 1..Len(log) : log[i].origin = "timeout"}

\* The non-empty lines the child has written, in the order written.
NonEmptyLines(lines) == SelectSeq(lines, LAMBDA l : l # "")

\* C1: whenever the timeout fired, in streaming or in buffered mode, the
\* handler has called kill on the child and the child is not left running.
C1_TimeoutKillsChild ==
    timedOut => killCount >= 1 /\ child # "running"

\* C2 as stated: after a timeout the client has exactly one timeout item
\* (streaming: the last event written; sync: the 504 response) and has
\* received no `result` text at all for the request.
C2_TimeoutNoResultAtAll ==
    (timedOut /\ pc = "done") =>
        IF mode = "stream"
        THEN /\ Cardinality(TimeoutItems(sent)) = 1
             /\ \A i \in TimeoutItems(sent) :
                   i = Len(sent) /\ IsTimeoutItem(sent[i].ev)
             /\ \A i \in 1..Len(sent) : ~IsTyped(sent[i].ev, "result")
        ELSE /\ response.status = 504
             /\ response.body["error"] =
                    "Query timed out after " \o ToString(Timeout(body)) \o "s"
             /\ "text" \notin DOMAIN response.body

\* C2 amended: the relay writes at most one timeout error event and writes
\* nothing after it; a timed-out request that returns has exactly one
\* (streaming: the last event; sync: the 504 response, which carries no
\* text).  Events forwarded before the deadline stay delivered.
C2_TimeoutLaw ==
    /\ Cardinality(TimeoutItems(sent)) <= 1
    /\ \A i \in TimeoutItems(sent) :
          i = Len(sent) /\ IsTimeoutItem(sent[i].ev)
    /\ (timedOut /\ pc = "done") =>
           IF mode = "stream"
           THEN /\ Cardinality(TimeoutItems(sent)) = 1
                /\ eofCalls = 1
           ELSE /\ response.status = 504
                /\ response.body["error"] =
                       "Query timed out after " \o ToString(Timeout(body)) \o "s"
                /\ response.body["status"] = FALSE
                /\ "text" \notin DOMAIN response.body
                /\ sent = << >>

\* C2 witness: a streamed request that timed out after a `result` event had
\* already been forwarded, and returned.
C2_Witness ==
    /\ mode = "stream" /\ timedOut /\ pc = "done"
    /\ Len(sent) = 2
    /\ IsTyped(sent[1].ev, "result")
    /\ IsTimeoutItem(sent[2].ev)

\* C3: when every line of standard output was a JSON object and the stream
\* ended before the timeout, the relay wrote N or N+1 events, the extra one
\* being the exit error, written only if the exit status is non-zero and no
\* `error` event had been forwarded from standard output.
C3_ExtraErrorOnlyWithoutEngineError ==
    (/\ mode = "stream" /\ pc = "done" /\ ~timedOut /\ ~aborted
     /\ \A i \in 1..Len(produced) : JsonIsDict(produced[i])) =>
        LET extra == Len(sent) - Len(produced) IN
        /\ extra \in {0, 1}
        /\ Len(EntriesFrom(sent, "exit")) = extra
        /\ extra = 1 =>
              /\ returncode # 0
              /\ \A i \in 1..Len(sent) :
                    sent[i].origin = "stdout" => ~IsTyped(sent[i].ev, "error")

\* C4: the events forwarded from standard output are, position by position,
\* the events of the non-empty lines the child wrote, in the order written:
\* nothing is reordered, duplicated or skipped over.
C4_OrderPreserved ==
    mode = "stream" =>
        LET fw  == EntriesFrom(sent, "stdout")
            src == NonEmptyLines(produced)
        IN /\ Len(fw) <= Len(src)
           /\ \A i \in 1..Len(fw) :
                 fw[i].ev = StreamEvent(src[i], UserId(body))

\* C4 witness: two different events forwarded from two lines.
C4_Witness ==
    /\ mode = "stream"
    /\ Len(EntriesFrom(sent, "stdout")) = 2
    /\ sent[1].ev # sent[2].ev

\* C5: once the disconnect / cancellation clause has run, the child is
\* killed, no write operation (event or end-of-stream) is attempted on the
\* transport, and no exception leaves the handler.
C5_NoWriteAfterDisconnect ==
    aborted => /\ killCount >= 1
               /\ lateWrites = 0
               /\ fault = "none"

\* C6: the streaming handler always eventually finishes, whatever the
\* child does.
C6_HandlerFinishes ==
    (mode = "stream") => <>(pc \in {"done", "raised"})

\* C7: for a valid request no fault of spawning, reading or parsing leaves
\* query_sync (a cancellation of the task is not such a fault).
C7_SyncNoFaultEscapes ==
    (mode = "sync" /\ ValidRequest) => fault \in {"none", "CancelledError"}

\* C8: a failed spawn never leaves either handler as an exception.
C8_SpawnFailureSurfaced ==
    ~(pc = "raised" /\ fault = "FileNotFoundError")

\* C9: a request whose prompt is missing or empty spawns no process and is
\* answered 400 "prompt is required".
C9_MissingPromptRejected ==
    ("prompt" \notin DOMAIN body \/ body["prompt"] = "") =>
        /\ spawnCount = 0
        /\ child = "none"
        /\ pc \in {"start", "done"}
        /\ pc = "done" =>
              /\ response.status = 400
              /\ response.body["status"] = FALSE
              /\ response.body["error"] = "prompt is required"

\* C9 witness: a request with an empty prompt has been answered 400.
C9_Witness ==
    /\ pc = "done"
    /\ "prompt" \in DOMAIN body /\ body["prompt"] = ""
    /\ response.status = 400
    /\ spawnCount = 0

\* C10: the status of a sync response is 504 if the timeout fired, 500 if
\* the child exited non-zero or wrote an `error` event, and 200 otherwise.
C10_SyncStatus ==
    (mode = "sync" /\ ValidRequest /\ pc = "done") =>
        response.status =
            IF timedOut THEN 504
            ELSE IF \/ returncode # 0
                    \/ \E i \in 1..Len(produced) :
                          /\ JsonIsDict(produced[i])
                          /\ IsTyped(JsonLoads(produced[i]), "error")
                 THEN 500
                 ELSE 200

\* The positions of the lines that are JSON objects of the given type.
EventLines(lines, t) ==
    {i \in 1..Len(lines) : JsonIsDict(lines[i]) /\ IsTyped(JsonLoads(lines[i]), t)}

\* The largest element of a non-empty set of positions.
Last(S) == CHOOSE i \in S : \A j \in S : j <= i

\* The lines the handler has taken from standard output so far.
Consumed == SubSeq(produced, 1, Len(produced) - Len(stdoutBuf))

\* query_sync got the child's complete output: communicate() returned.
SyncCompleted ==
    /\ mode = "sync" /\ ValidRequest /\ Finished /\ spawnCount = 1
    /\ ~timedOut
    /\ fault \notin {"CancelledError", "FileNotFoundError"}

\* C11: a sync response built from a complete output is an error response
\* carrying the `error` of the last `error` event whenever the output has
\* an `error` event, whatever its text; otherwise its text is the `text` of
\* the last `result` event.
C11_SyncReduction ==
    (mode = "sync" /\ ValidRequest /\ pc = "done" /\ ~timedOut) =>
        LET errs == EventLines(produced, "error")
            ress == EventLines(produced, "result")
        IN /\ errs # {} =>
                 /\ response.status = 500
                 /\ response.body["status"] = FALSE
                 /\ response.body["error"] =
                        JsonLoads(produced[Last(errs)])["error"]
           /\ (errs = {} /\ ress # {}) =>
                 /\ response.body["status"] = TRUE
                 /\ response.body["text"] =
                        JsonLoads(produced[Last(ress)])["text"]

\* C12: when the complete output has neither a `result` nor an `error`
\* event, query_sync answers success with the standard-output text if the
\* exit status is zero, and otherwise failure with the standard-error text
\* (or "Exit code N") and the return code.
C12_SyncFallback ==
    (/\ SyncCompleted
     /\ EventLines(produced, "error") = {}
     /\ EventLines(produced, "result") = {}) =>
        /\ pc = "done"
        /\ IF returncode = 0
           THEN /\ response.status = 200
                /\ response.body["status"] = TRUE
                /\ response.body["text"] = StdoutText(produced)
           ELSE /\ response.status = 500
                /\ response.body["status"] = FALSE
                /\ response.body["error"] =
                       (IF Strip(stderrText) # "" THEN Strip(stderrText)
                        ELSE "Exit code " \o ToString(returncode))
                /\ response.body["returncode"] = returncode

\* C14: a line that is valid JSON but no object never makes a handler fail,
\* and the streaming relay forwards it as a debug event carrying the line.
C14_NonObjectWrappedAsDebug ==
    \A i \in 1..Len(Consumed) :
        (JsonDecodes(Consumed[i]) /\ ~JsonIsDict(Consumed[i])) =>
            /\ fault \notin {"TypeError", "AttributeError"}
            /\ (mode = "stream" /\ ~aborted) =>
                  \E j \in 1..Len(sent) :
                     sent[j].ev = ("type" :> "debug") @@ ("text" :> Consumed[i])

\* C15: as long as the client is connected, every non-empty line the
\* streaming relay has read has produced exactly one forwarded event and
\* empty lines none.
C15_NoLineDropped ==
    (mode = "stream" /\ ~aborted) =>
        Len(EntriesFrom(sent, "stdout")) = Len(NonEmptyLines(Consumed))

\* C16: every event the streaming relay has written has a `type` field.
C16_EveryEventTyped ==
    \A i \in 1..Len(sent) : "type" \in DOMAIN sent[i].ev

\* The user id of the request.
RequestUserId ==
    IF "user_id" \in DOMAIN body THEN body["user_id"] ELSE "api-anonymous"

\* C17 as stated: every passed-through event carries the request's user id
\* and every field the engine supplied, `user_id` included, is unchanged.
C17_AllEngineFieldsUnchanged ==
    mode = "stream" =>
        LET fw  == EntriesFrom(sent, "stdout")
            src == NonEmptyLines(Consumed)
        IN \A i \in 1..Len(fw) :
              (i <= Len(src) /\ JsonIsDict(src[i])) =>
                 /\ fw[i].ev["user_id"] = RequestUserId
                 /\ \A k \in DOMAIN JsonLoads(src[i]) :
                       fw[i].ev[k] = JsonLoads(src[i])[k]

\* C17 amended: every passed-through event carries the request's user id,
\* has the engine's fields and `user_id` and no other, and every field the
\* engine supplied other than `user_id` is unchanged (a `user_id` supplied
\* by the engine is overwritten).
C17_UserIdInjected ==
    mode = "stream" =>
        LET fw  == EntriesFrom(sent, "stdout")
            src == NonEmptyLines(Consumed)
        IN \A i \in 1..Len(fw) :
              (i <= Len(src) /\ JsonIsDict(src[i])) =>
                 /\ DOMAIN fw[i].ev = DOMAIN JsonLoads(src[i]) \cup {"user_id"}
                 /\ fw[i].ev["user_id"] = RequestUserId
                 /\ \A k \in DOMAIN JsonLoads(src[i]) \ {"user_id"} :
                       fw[i].ev[k] = JsonLoads(src[i])[k]

\* C17 witness: an event the engine emitted with its own `user_id` has been
\* forwarded with the `user_id` of the request.
C17_Witness ==
    /\ mode = "stream"
    /\ "user_id" \in DOMAIN body
    /\ \E i \in 1..Len(sent) :
          /\ sent[i].origin = "stdout"
          /\ IsTyped(sent[i].ev, "progress")
          /\ sent[i].ev["user_id"] = body["user_id"]

\* query_stream relayed the child's complete output and returned.
StreamCompleted ==
    mode = "stream" /\ pc = "done" /\ ~timedOut /\ ~aborted

\* The streamed sequence of a complete run holds an `error` event exactly
\* when the child wrote one or exited non-zero.
StreamedError == returncode # 0 \/ EventLines(produced, "error") # {}

\* C19: for a child behaviour that completes before the timeout, the
\* streamed sequence holds an `error` event exactly when the sync response
\* is a failure, and a sync success carries the text of the last `result`
\* event of the stream when there is one.
C19_ModesConsistent ==
    /\ StreamCompleted =>
          /\ (\E j \in 1..Len(sent) : IsTyped(sent[j].ev, "error"))
                <=> StreamedError
          /\ \A i \in EventLines(produced, "result") :
                \E j \in 1..Len(sent) :
                   /\ IsTyped(sent[j].ev, "result")
                   /\ sent[j].ev["text"] = JsonLoads(produced[i])["text"]
    /\ (SyncCompleted /\ pc = "done") =>
          /\ (response.body["status"] = FALSE) <=> StreamedError
          /\ (response.body["status"] = TRUE
                 /\ EventLines(produced, "result") # {}) =>
                response.body["text"] =
                    JsonLoads(produced[Last(EventLines(produced, "result"))])["text"]

\* C20: when a handler finishes, by a response or by a fault, the child it
\* spawned has exited or has been killed; and kill is called only after a
\* timeout, a disconnect or a cancellation.
C20_NoChildOutlivesRequest ==
    /\ (Finished /\ spawnCount >= 1) => child \in {"exited", "killed"}
    /\ killCount >= 1 => (timedOut \/ aborted)

\* C13: the command built for a request is the binary, the entry, --pipe,
\* then --verbose if `verbose` is set, and the prompt as the last element.
C13_PromptIsLastArgument ==
    \A r \in Requests :
        launches[r].stage # "new" =>
            LET cmd == launches[r].cmd
                b   == launches[r].body
                verbose == "verbose" \in DOMAIN b /\ b["verbose"] = TRUE
            IN /\ Len(cmd) = (IF verbose THEN 5 ELSE 4)
               /\ SubSeq(cmd, 1, 3) = << "node", "/app/dist/index.js", "--pipe" >>
               /\ verbose => cmd[4] = "--verbose"
               /\ cmd[Len(cmd)] = b["prompt"]

\* The variables a request's own body may set in its child's environment,
\* with the value it sets.
OwnOverride(b, k, v) ==
    \/ k = "SPORTSCLAW_PROVIDER" /\ "provider" \in DOMAIN b /\ v = b["provider"]
    \/ k = "SPORTSCLAW_MODEL" /\ "model" \in DOMAIN b /\ v = b["model"]
    \/ /\ k \in {"ANTHROPIC_API_KEY", "OPENAI_API_KEY",
                 "GOOGLE_GENERATIVE_AI_API_KEY"}
       /\ "api_key" \in DOMAIN b /\ v = b["api_key"]

\* C18: under every interleaving of the requests, the process environment
\* is never modified, and the environment of a request's child is the
\* process environment except where the request's own body overrides it.
C18_EnvIsolated ==
    /\ [](\A r \in Requests :
             launches[r].stage # "new" =>
                LET e == launches[r].env IN
                /\ DOMAIN environ \subseteq DOMAIN e
                /\ \A k \in DOMAIN e :
                      (k \notin DOMAIN environ \/ e[k] # environ[k]) =>
                          OwnOverride(launches[r].body, k, e[k]))
    /\ [][environ' = environ]_vars

\* The environment e sets variable k to v.
EnvHas(e, k, v) == k \in DOMAIN e /\ e[k] = v

\* C18 witness: two requests launched with different providers and keys,
\* each child environment holding its own request's values and the process
\* environment still the one the relay started with.
C18_Witness ==
    /\ \A r \in Requests : launches[r].stage = "spawned"
    /\ EnvHas(launches["r1"].env, "SPORTSCLAW_PROVIDER", "openai")
    /\ EnvHas(launches["r2"].env, "SPORTSCLAW_PROVIDER", "mistral")
    /\ EnvHas(launches["r1"].env, "OPENAI_API_KEY", "sk-a")
    /\ EnvHas(launches["r2"].env, "ANTHROPIC_API_KEY", "sk-b")
    /\ "OPENAI_API_KEY" \notin DOMAIN launches["r2"].env
    /\ environ = AmbientConfigured

=============================================================================
